---- MODULE Spec2Model ----
(***************************************************************************)
(* Huffman file compressor (file_compressor.py): frequency table, tree     *)
(* construction on a binary heap ordered by HuffmanNode.__lt__, code       *)
(* generation, bit packing, the 1024+1+payload container, the decode walk  *)
(* of decompress, and the conversion functions that read or write the      *)
(* same files (zip_to_huf, huf_to_txt, zip_to_txt, extract_txt_from_zip).  *)
(* One session is modelled: compress, then any number of zip_to_huf, then  *)
(* one of decompress / huf_to_txt / zip_to_txt, then extract_txt_from_zip. *)
(*                                                                         *)
(* Bit strings are sequences over {0, 1}; files are records                *)
(* [exists, bytes].  A failing open()/write() of the underlying storage    *)
(* (IOError) is not modelled: storage is taken to work.  Counts stay far   *)
(* below 2^32, so int.to_bytes(4, 'big') never raises OverflowError.       *)
(***************************************************************************)
EXTENDS Integers, Sequences, FiniteSets, TLC

\* ----------------------------------------------------------------- bounds
\* Longest input given to compress.
MaxLen == 4
\* Byte values the inputs are drawn from.
Bytes == {0, 1, 65, 255}
\* Lengths at which a container is cut to give decompress a short file.
CutPoints == {0, 3, 4, 1024, 1025}
\* Pad-length bytes written over the stored one to give a tampered file.
PadVals == {0, 3, 5, 255}

\* ------------------------------------------------------- program constants
NumSlots == 256
CountWidth == 4
InternalRank == 256

\* char of an internal node (Python None)
NoneChar == -1
\* a missing child / a missing tree (Python None)
NoneNode == [none |-> TRUE]

VARIABLES
  pc,            \* "start", "c_build", "c_done", "d_build", "d_walk",
                 \* "t_finish", "done"
  op,            \* caller of decompress: "none", "decompress", "huf_to_txt",
                 \* "zip_to_txt"
  data,          \* bytes of compress's input file
  frequency,     \* frequency table of the running build_huffman_tree call
  nodes,         \* the heap list of build_huffman_tree
  merges,        \* iterations of build_huffman_tree's while loop so far
  c_root,        \* compress: root
  codes,         \* compress: codes
  c_padding,     \* compress: padding
  huf,           \* the .huf file: compress's and zip_to_huf's output file
  c_outcome,     \* "none", "EmptyInput", "ok"
  infile,        \* decompress's input file (temp.huf under zip_to_txt)
  d_padding,     \* decompress: padding
  d_root,        \* decompress: root
  encoded_bits,  \* decompress: encoded_bits after the padding is cut
  bitpos,        \* decompress: bits of encoded_bits consumed by the for loop
  current_node,  \* decompress: current_node
  decoded_data,  \* decompress: decoded_data
  out,           \* decompress's output file (temp.bin under huf_to_txt)
  d_outcome,     \* "none", "NotFound", "InvalidHuffmanData", "AttributeError", "ok"
  txt,           \* the .txt file: huf_to_txt's and extract_txt_from_zip's output
  t_outcome      \* huf_to_txt: "none", "ok", "NotUtf8", "FileNotFoundError"

vars == <<pc, op, data, frequency, nodes, merges, c_root, codes, c_padding,
          huf, c_outcome, infile, d_padding, d_root, encoded_bits, bitpos,
          current_node, decoded_data, out, d_outcome, txt, t_outcome>>

\* ------------------------------------------------------------------ files
NoFile == [exists |-> FALSE, bytes |-> <<>>]
File(bs) == [exists |-> TRUE, bytes |-> bs]
\* what the destination of compress may hold before the run
OldFile == File(<<7, 7, 7>>)

Take(s, n) == SubSeq(s, 1, IF n < Len(s) THEN n ELSE Len(s))
Drop(s, n) == SubSeq(s, n + 1, Len(s))

\* validate_file_path(path, 'r')
validate_file_path(f) == f.exists

\* ------------------------------------------------------------ HuffmanNode
HuffmanNode(char, freq) ==
  [char |-> char, freq |-> freq, left |-> NoneNode, right |-> NoneNode]

IsNone(n) == n = NoneNode
IsLeaf(n) == ~IsNone(n) /\ n.char # NoneChar
IsInternal(n) == ~IsNone(n) /\ n.char = NoneChar

\* HuffmanNode.__lt__
lt(self, other) ==
  LET self_val == IF self.char # NoneChar THEN self.char ELSE InternalRank
      other_val == IF other.char # NoneChar THEN other.char ELSE InternalRank
  IN IF self.freq = other.freq THEN self_val < other_val
     ELSE self.freq < other.freq

\* ------------------------------------------------------------------ heapq
\* Positions are 0-based as in heapq; heap[pos + 1] is the element at pos.
RECURSIVE SiftdownLoop(_, _, _, _)
SiftdownLoop(heap, startpos, pos, newitem) ==
  IF pos > startpos
  THEN LET parentpos == (pos - 1) \div 2
           parent == heap[parentpos + 1]
       IN IF lt(newitem, parent)
          THEN SiftdownLoop([heap EXCEPT ![pos + 1] = parent], startpos,
                            parentpos, newitem)
          ELSE [heap EXCEPT ![pos + 1] = newitem]
  ELSE [heap EXCEPT ![pos + 1] = newitem]

siftdown(heap, startpos, pos) ==
  SiftdownLoop(heap, startpos, pos, heap[pos + 1])

RECURSIVE SiftupLoop(_, _, _, _)
SiftupLoop(heap, pos, childpos, endpos) ==
  IF childpos < endpos
  THEN LET rightpos == childpos + 1
           c == IF rightpos < endpos
                   /\ ~lt(heap[childpos + 1], heap[rightpos + 1])
                THEN rightpos ELSE childpos
       IN SiftupLoop([heap EXCEPT ![pos + 1] = heap[c + 1]], c, 2 * c + 1,
                     endpos)
  ELSE <<heap, pos>>

siftup(heap, pos) ==
  LET newitem == heap[pos + 1]
      r == SiftupLoop(heap, pos, 2 * pos + 1, Len(heap))
  IN siftdown([r[1] EXCEPT ![r[2] + 1] = newitem], pos, r[2])

RECURSIVE HeapifyLoop(_, _)
HeapifyLoop(x, i) ==
  IF i < 0 THEN x ELSE HeapifyLoop(siftup(x, i), i - 1)

heapify(x) == HeapifyLoop(x, (Len(x) \div 2) - 1)

\* <<returned item, heap afterwards>>
heappop(heap) ==
  LET lastelt == heap[Len(heap)]
      rest == SubSeq(heap, 1, Len(heap) - 1)
  IN IF rest # <<>>
     THEN <<rest[1], siftup([rest EXCEPT ![1] = lastelt], 0)>>
     ELSE <<lastelt, rest>>

heappush(heap, item) == siftdown(Append(heap, item), 0, Len(heap))

\* ------------------------------------------------- build_frequency_table
build_frequency_table(d) ==
  [b \in {d[i] : i \in DOMAIN d} |->
     Cardinality({i \in DOMAIN d : d[i] = b})]

\* frequency.get(byte, 0)
FreqGet(f, b) == IF b \in DOMAIN f THEN f[b] ELSE 0

\* ---------------------------------------------------- build_huffman_tree
\* sorted(frequency.items()): the keys in ascending order
SortedKeys(f) ==
  LET all == [i \in 1..NumSlots |-> i - 1]
      Has(b) == b \in DOMAIN f
  IN SelectSeq(all, Has)

\* [HuffmanNode(byte, freq) for byte, freq in sorted(...) if freq > 0]
RECURSIVE LeafNodes(_, _)
LeafNodes(keys, f) ==
  IF keys = <<>> THEN <<>>
  ELSE <<HuffmanNode(Head(keys), f[Head(keys)])>> \o LeafNodes(Tail(keys), f)

LeafList(f) ==
  LET Pos(b) == f[b] > 0
  IN LeafNodes(SelectSeq(SortedKeys(f), Pos), f)

\* MergeStep with the two popped nodes attached the other way round
MergeStep_swapped(heap) ==
  LET p1 == heappop(heap)
      p2 == heappop(p1[2])
      left == p1[1]
      right == p2[1]
      merged == [char |-> NoneChar, freq |-> left.freq + right.freq,
                 left |-> right, right |-> left]
  IN heappush(p2[2], merged)

\* one iteration of the while loop: the heap afterwards
MergeStep(heap) ==
  LET p1 == heappop(heap)
      p2 == heappop(p1[2])
      left == p1[1]
      right == p2[1]
      merged == [char |-> NoneChar, freq |-> left.freq + right.freq,
                 left |-> left, right |-> right]
  IN heappush(p2[2], merged)

\* return nodes[0] if nodes else None
BuildResult(heap) == IF heap # <<>> THEN heap[1] ELSE NoneNode

\* --------------------------------------------------------- generate_codes
\* generate_codes descending left without appending "0"
RECURSIVE generate_codes_noleftbit(_, _, _)
generate_codes_noleftbit(root, current_code, cs) ==
  IF IsNone(root) THEN cs
  ELSE IF root.char # NoneChar
  THEN [b \in DOMAIN cs \cup {root.char} |->
          IF b = root.char
          THEN (IF current_code # <<>> THEN current_code ELSE <<0>>)
          ELSE cs[b]]
  ELSE generate_codes_noleftbit(root.right, current_code \o <<1>>,
         generate_codes_noleftbit(root.left, current_code, cs))

RECURSIVE generate_codes(_, _, _)
generate_codes(root, current_code, cs) ==
  IF IsNone(root) THEN cs
  ELSE IF root.char # NoneChar
  THEN [b \in DOMAIN cs \cup {root.char} |->
          IF b = root.char
          THEN (IF current_code # <<>> THEN current_code ELSE <<0>>)
          ELSE cs[b]]
  ELSE generate_codes(root.right, current_code \o <<1>>,
         generate_codes(root.left, current_code \o <<0>>, cs))

\* ------------------------------------------------------------- bit packing
Pow2(k) == 2 ^ k

\* ''.join(codes[byte] for byte in data)
RECURSIVE Encode(_, _)
Encode(d, cs) ==
  IF d = <<>> THEN <<>> ELSE cs[Head(d)] \o Encode(Tail(d), cs)

\* Padding without the outer % 8
Padding_nomod(n) == 8 - (n % 8)

\* (8 - len(encoded_bits) % 8) % 8
Padding(n) == (8 - (n % 8)) % 8

Zeros(n) == [i \in 1..n |-> 0]

\* int(bits, 2) for a bit string of at most 8 bits
RECURSIVE BitsToInt(_)
BitsToInt(bits) ==
  IF bits = <<>> THEN 0
  ELSE 2 * BitsToInt(SubSeq(bits, 1, Len(bits) - 1)) + bits[Len(bits)]

\* bytearray(int(encoded_bits[i:i+8], 2) for i in range(0, len, 8))
PackBits(bits) ==
  [k \in 1..((Len(bits) + 7) \div 8) |->
     BitsToInt(SubSeq(bits, 8 * (k - 1) + 1,
                      IF 8 * k < Len(bits) THEN 8 * k ELSE Len(bits)))]

\* ByteToBits with the least significant bit first
ByteToBits_lsbfirst(b) == [i \in 1..8 |-> (b \div Pow2(i - 1)) % 2]

\* f"{byte:08b}"
ByteToBits(b) == [i \in 1..8 |-> (b \div Pow2(8 - i)) % 2]

\* ''.join(f"{byte:08b}" for byte in encoded_bytes)
UnpackBits(bs) ==
  [j \in 1..(8 * Len(bs)) |-> ByteToBits(bs[((j - 1) \div 8) + 1])[((j - 1) % 8) + 1]]

\* encoded_bits[:-padding] when padding > 0
CutPadding(bits, padding) ==
  IF padding > 0
  THEN SubSeq(bits, 1, IF Len(bits) - padding > 0 THEN Len(bits) - padding ELSE 0)
  ELSE bits

\* ---------------------------------------------------------- container codec
Pow256(k) == 256 ^ k

\* byte i (from 1) of n.to_bytes(width, 'big')
ToByte(n, width, i) == (n \div Pow256(width - i)) % 256

\* n.to_bytes(width, 'big')
ToBytes(n, width) == [i \in 1..width |-> ToByte(n, width, i)]

\* int.from_bytes(bs, 'big'); b'' gives 0
RECURSIVE FromBytes(_)
FromBytes(bs) ==
  IF bs = <<>> THEN 0
  ELSE 256 * FromBytes(SubSeq(bs, 1, Len(bs) - 1)) + bs[Len(bs)]

\* the bytes compress writes: 256 counts, the pad length, the payload
Container(f, padding, encoded_bytes) ==
  [i \in 1..(NumSlots * CountWidth) |->
     ToByte(FreqGet(f, (i - 1) \div CountWidth), CountWidth,
            ((i - 1) % CountWidth) + 1)]
  \o ToBytes(padding, 1) \o encoded_bytes

\* f.read(n) at offset pos: short at the end of the file
ReadAt(bs, pos, n) ==
  SubSeq(bs, pos + 1, IF pos + n < Len(bs) THEN pos + n ELSE Len(bs))

\* {byte: int.from_bytes(f.read(4), 'big') for byte in range(256)}
ReadFrequency(bs) ==
  [b \in 0..(NumSlots - 1) |-> FromBytes(ReadAt(bs, CountWidth * b, CountWidth))]

ReadPadding(bs) == FromBytes(ReadAt(bs, NumSlots * CountWidth, 1))

ReadPayload(bs) == Drop(bs, NumSlots * CountWidth + 1)

\* ------------------------------------------------------------------ UTF-8
\* One step of bytes.decode('utf-8') at the head of bs:
\* <<bytes consumed, code point>>, or <<0, 0>> where decoding fails.
Utf8Head(bs) ==
  LET n == Len(bs)
      b1 == bs[1]
      Cont(i) == i <= n /\ bs[i] >= 128 /\ bs[i] <= 191
      lo2 == IF b1 = 224 THEN 160 ELSE IF b1 = 240 THEN 144 ELSE 128
      hi2 == IF b1 = 237 THEN 159 ELSE IF b1 = 244 THEN 143 ELSE 191
      Second == n >= 2 /\ bs[2] >= lo2 /\ bs[2] <= hi2
  IN IF b1 < 128 THEN <<1, b1>>
     ELSE IF b1 >= 194 /\ b1 <= 223
     THEN IF Cont(2) THEN <<2, (b1 - 192) * 64 + (bs[2] - 128)>> ELSE <<0, 0>>
     ELSE IF b1 >= 224 /\ b1 <= 239
     THEN IF Second /\ Cont(3)
          THEN <<3, (b1 - 224) * 4096 + (bs[2] - 128) * 64 + (bs[3] - 128)>>
          ELSE <<0, 0>>
     ELSE IF b1 >= 240 /\ b1 <= 244
     THEN IF Second /\ Cont(3) /\ Cont(4)
          THEN <<4, (b1 - 240) * 262144 + (bs[2] - 128) * 4096
                    + (bs[3] - 128) * 64 + (bs[4] - 128)>>
          ELSE <<0, 0>>
     ELSE <<0, 0>>

\* bytes.decode('utf-8'): [ok, text], text a sequence of code points;
\* ok is FALSE where Python raises UnicodeDecodeError
RECURSIVE Utf8Decode(_)
Utf8Decode(bs) ==
  IF bs = <<>> THEN [ok |-> TRUE, text |-> <<>>]
  ELSE LET h == Utf8Head(bs)
       IN IF h[1] = 0 THEN [ok |-> FALSE, text |-> <<>>]
          ELSE LET r == Utf8Decode(SubSeq(bs, h[1] + 1, Len(bs)))
               IN IF r.ok THEN [ok |-> TRUE, text |-> <<h[2]>> \o r.text]
                  ELSE [ok |-> FALSE, text |-> <<>>]

\* the bytes a text file opened with encoding='utf-8' receives for text
\* (os.linesep is "\n" here, so the newline translation changes nothing)
RECURSIVE Utf8Encode(_)
Utf8Encode(text) ==
  IF text = <<>> THEN <<>>
  ELSE LET cp == Head(text)
           bs == IF cp < 128 THEN <<cp>>
                 ELSE IF cp < 2048
                 THEN <<192 + (cp \div 64), 128 + (cp % 64)>>
                 ELSE IF cp < 65536
                 THEN <<224 + (cp \div 4096), 128 + ((cp \div 64) % 64),
                        128 + (cp % 64)>>
                 ELSE <<240 + (cp \div 262144), 128 + ((cp \div 4096) % 64),
                        128 + ((cp \div 64) % 64), 128 + (cp % 64)>>
       IN bs \o Utf8Encode(Tail(text))

\* ------------------------------------------------------------ ZIP archives
\* An archive is [exists, entries]; an entry is the suffix of its file name
\* and its content.
NoZip == [exists |-> FALSE, entries |-> <<>>]
Zip(es) == [exists |-> TRUE, entries |-> es]
Entry(sfx, bs) == [suffix |-> sfx, content |-> bs]

\* the loop over zipf.infolist(): the first entry whose name ends in sfx,
\* <<found, content>>
RECURSIVE FirstEntry(_, _)
FirstEntry(es, sfx) ==
  IF es = <<>> THEN <<FALSE, <<>>>>
  ELSE IF Head(es).suffix = sfx THEN <<TRUE, Head(es).content>>
  ELSE FirstEntry(Tail(es), sfx)

\* the destination file after zip_to_huf / extract_txt_from_zip
\* (sfx "huf" / "txt") on archive z; dest is the destination before
Extract(z, sfx, dest) ==
  IF ~validate_file_path(z) THEN dest
  ELSE LET e == FirstEntry(z.entries, sfx)
       IN IF e[1] THEN File(e[2]) ELSE dest

zip_to_huf(z, dest) == Extract(z, "huf", dest)

extract_txt_from_zip(z, dest) == Extract(z, "txt", dest)

\* ------------------------------------------------------------------ inputs
Inputs == UNION {[1..n -> Bytes] : n \in 0..MaxLen}

\* a container-sized file whose 256 stored counts are all zero
ZeroFile == File(Zeros(NumSlots * CountWidth) \o <<0, 128>>)

\* a hand-made container: counts 1, 2, 4, 8 for the bytes 0, 1, 65, 255,
\* pad length 0 and one payload byte whose last two bits start a code
SkewFile ==
  File(Container([b \in Bytes |->
                    IF b = 0 THEN 1 ELSE IF b = 1 THEN 2
                    ELSE IF b = 65 THEN 4 ELSE 8],
                 0, <<180>>))

\* a hand-made container that decodes to the two bytes C3 A9 ("e" acute)
AccentFile == File(Container([b \in {169, 195} |-> 1], 6, <<128>>))

\* the file with its pad-length byte overwritten
SetPad(bs, p) == [bs EXCEPT ![NumSlots * CountWidth + 1] = p]

\* Files decompress is run on: none, the all-zero container, the hand-made
\* container, and the .huf file: as it is, cut short, or with another pad
\* length.
InputFiles(h) ==
  {NoFile, ZeroFile, SkewFile}
  \cup (IF h.exists
        THEN {h}
             \cup {File(Take(h.bytes, k)) : k \in CutPoints}
             \cup {File(Take(h.bytes, Len(h.bytes) - 1))}
             \cup (IF Len(h.bytes) > NumSlots * CountWidth
                   THEN {File(SetPad(h.bytes, p)) : p \in PadVals}
                   ELSE {})
        ELSE {})

\* Files huf_to_txt is run on
HufFiles(h) == {h, ZeroFile, AccentFile}

\* Archives: none, one without a .huf entry, one with a .txt entry and two
\* .huf entries, and the archive menu choice 3 makes of the .huf file
ZipOld ==
  Zip(<<Entry("txt", <<66, 255>>), Entry("huf", <<7, 7, 7>>),
        Entry("huf", <<9>>)>>)

ZipFiles(h) ==
  {NoZip, Zip(<<Entry("txt", <<65>>)>>), ZipOld}
  \cup (IF h.exists THEN {Zip(<<Entry("huf", h.bytes)>>)} ELSE {})

\* ------------------------------------------------------------------- Init
Init ==
  /\ pc = "start"
  /\ op = "none"
  /\ data \in Inputs
  /\ huf \in {NoFile, OldFile}
  /\ frequency = <<>>
  /\ nodes = <<>>
  /\ merges = 0
  /\ c_root = NoneNode
  /\ codes = <<>>
  /\ c_padding = 0
  /\ c_outcome = "none"
  /\ infile = NoFile
  /\ d_padding = 0
  /\ d_root = NoneNode
  /\ encoded_bits = <<>>
  /\ bitpos = 0
  /\ current_node = NoneNode
  /\ decoded_data = <<>>
  /\ out = NoFile
  /\ d_outcome = "none"
  /\ txt = NoFile
  /\ t_outcome = "none"

\* ------------------------------------------------------------------ compress
\* CompressRead without the check for an empty source
CompressRead_nocheck ==
  /\ pc = "start"
  /\ frequency' = build_frequency_table(data)
  /\ nodes' = heapify(LeafList(frequency'))
  /\ merges' = 0
  /\ pc' = "c_build"
  /\ UNCHANGED <<op, data, c_root, codes, c_padding, huf, c_outcome, infile,
                 d_padding, d_root, encoded_bits, bitpos, current_node,
                 decoded_data, out, d_outcome, txt, t_outcome>>

\* compress, lines 65-76: read the source, reject an empty one, count the
\* bytes and enter build_huffman_tree (leaf list and heapify).
CompressRead ==
  /\ pc = "start"
  /\ IF data = <<>>
     THEN /\ c_outcome' = "EmptyInput"
          /\ pc' = "c_done"
          /\ UNCHANGED <<frequency, nodes, merges>>
     ELSE /\ frequency' = build_frequency_table(data)
          /\ nodes' = heapify(LeafList(frequency'))
          /\ merges' = 0
          /\ pc' = "c_build"
          /\ UNCHANGED c_outcome
  /\ UNCHANGED <<op, data, c_root, codes, c_padding, huf, infile, d_padding,
                 d_root, encoded_bits, bitpos, current_node, decoded_data,
                 out, d_outcome, txt, t_outcome>>

\* build_huffman_tree, lines 43-49: one iteration of the while loop.
Merge ==
  /\ pc \in {"c_build", "d_build"}
  /\ Len(nodes) > 1
  /\ nodes' = MergeStep(nodes)
  /\ merges' = merges + 1
  /\ UNCHANGED <<pc, op, data, frequency, c_root, codes, c_padding, huf,
                 c_outcome, infile, d_padding, d_root, encoded_bits, bitpos,
                 current_node, decoded_data, out, d_outcome, txt, t_outcome>>

\* compress, lines 76-93: the tree is built; generate the codes, encode,
\* pad, pack and write the container.
CompressEncode ==
  /\ pc = "c_build"
  /\ Len(nodes) <= 1
  /\ LET root == BuildResult(nodes)
         cs == generate_codes(root, <<>>, <<>>)
         bits == Encode(data, cs)
         padding == Padding(Len(bits))
         encoded_bytes == PackBits(bits \o Zeros(padding))
     IN /\ c_root' = root
        /\ codes' = cs
        /\ c_padding' = padding
        /\ huf' = File(Container(frequency, padding, encoded_bytes))
  /\ c_outcome' = "ok"
  /\ pc' = "c_done"
  /\ UNCHANGED <<op, data, frequency, nodes, merges, infile, d_padding,
                 d_root, encoded_bits, bitpos, current_node, decoded_data,
                 out, d_outcome, txt, t_outcome>>

\* ---------------------------------------------------------------- zip_to_huf
\* zip_to_huf, lines 137-149 (menu choice 4) with the .huf file as its
\* destination.
ZipToHuf ==
  /\ pc = "c_done"
  /\ \E z \in ZipFiles(huf) : huf' = zip_to_huf(z, huf)
  /\ UNCHANGED <<pc, op, data, frequency, nodes, merges, c_root, codes,
                 c_padding, c_outcome, infile, d_padding, d_root,
                 encoded_bits, bitpos, current_node, decoded_data, out,
                 d_outcome, txt, t_outcome>>

\* ---------------------------------------------------------------- decompress
\* where control goes when decompress returns to caller o
Return(o) == IF o = "decompress" THEN "done" ELSE "t_finish"

\* decompress, lines 98-108, called by o on file f: check the path, read
\* the header and enter build_huffman_tree.
DecompressEnter(f, o) ==
  /\ infile' = f
  /\ op' = o
  /\ IF ~validate_file_path(f)
     THEN /\ d_outcome' = "NotFound"
          /\ pc' = Return(o)
          /\ UNCHANGED <<frequency, d_padding, nodes, merges>>
     ELSE /\ frequency' = ReadFrequency(f.bytes)
          /\ d_padding' = ReadPadding(f.bytes)
          /\ nodes' = heapify(LeafList(frequency'))
          /\ merges' = 0
          /\ pc' = "d_build"
          /\ UNCHANGED d_outcome
  /\ UNCHANGED <<data, c_root, codes, c_padding, huf, c_outcome, d_root,
                 encoded_bits, bitpos, current_node, decoded_data, out, txt,
                 t_outcome>>

\* menu choice 2: decompress(input_file, output_file)
DecompressRead ==
  /\ pc = "c_done"
  /\ \E f \in InputFiles(huf) : DecompressEnter(f, "decompress")

\* huf_to_txt, lines 151-153 (menu choice 5): decompress(huf_path, temp.bin)
HufToTxtStart ==
  /\ pc = "c_done"
  /\ \E f \in HufFiles(huf) : DecompressEnter(f, "huf_to_txt")

\* zip_to_txt, lines 166-169 (menu choice 6): zip_to_huf(zip_path, temp.huf),
\* no temp.huf being there before, then huf_to_txt(temp.huf, output_path)
ZipToTxtStart ==
  /\ pc = "c_done"
  /\ \E z \in ZipFiles(huf) :
       DecompressEnter(zip_to_huf(z, NoFile), "zip_to_txt")

\* decompress, lines 108-119: the tree is built; reject a missing root,
\* else expand the payload to bits, cut the padding and start the walk.
DecompressRoot ==
  /\ pc = "d_build"
  /\ Len(nodes) <= 1
  /\ LET root == BuildResult(nodes)
     IN IF IsNone(root)
        THEN /\ d_outcome' = "InvalidHuffmanData"
             /\ pc' = Return(op)
             /\ UNCHANGED <<d_root, encoded_bits, bitpos, current_node,
                            decoded_data>>
        ELSE /\ d_root' = root
             /\ encoded_bits' =
                  CutPadding(UnpackBits(ReadPayload(infile.bytes)), d_padding)
             /\ bitpos' = 0
             /\ current_node' = root
             /\ decoded_data' = <<>>
             /\ pc' = "d_walk"
             /\ UNCHANGED d_outcome
  /\ UNCHANGED <<op, data, frequency, nodes, merges, c_root, codes,
                 c_padding, huf, c_outcome, infile, d_padding, out, txt,
                 t_outcome>>

\* decompress, lines 120-124: one iteration of the for loop.  Stepping onto
\* a missing child makes current_node.char raise AttributeError, which the
\* except clause of line 133 does not catch; it ends the caller too.
WalkBit ==
  /\ pc = "d_walk"
  /\ bitpos < Len(encoded_bits)
  /\ LET bit == encoded_bits[bitpos + 1]
         nxt == IF bit = 0 THEN current_node.left ELSE current_node.right
     IN IF IsNone(nxt)
        THEN /\ current_node' = nxt
             /\ d_outcome' = "AttributeError"
             /\ pc' = "done"
             /\ UNCHANGED decoded_data
        ELSE /\ IF nxt.char # NoneChar
                THEN /\ decoded_data' = Append(decoded_data, nxt.char)
                     /\ current_node' = d_root
                ELSE /\ current_node' = nxt
                     /\ UNCHANGED decoded_data
             /\ UNCHANGED <<d_outcome, pc>>
  /\ bitpos' = bitpos + 1
  /\ UNCHANGED <<op, data, frequency, nodes, merges, c_root, codes,
                 c_padding, huf, c_outcome, infile, d_padding, d_root,
                 encoded_bits, out, txt, t_outcome>>

\* DecompressWrite refusing a walk that did not end at the root
DecompressWrite_strict ==
  /\ pc = "d_walk"
  /\ bitpos = Len(encoded_bits)
  /\ IF current_node = d_root
     THEN /\ out' = File(decoded_data)
          /\ d_outcome' = "ok"
     ELSE /\ d_outcome' = "TruncatedStream"
          /\ UNCHANGED out
  /\ pc' = Return(op)
  /\ UNCHANGED <<op, data, frequency, nodes, merges, c_root, codes,
                 c_padding, huf, c_outcome, infile, d_padding, d_root,
                 encoded_bits, bitpos, current_node, decoded_data, txt,
                 t_outcome>>

\* decompress, lines 126-132: the bits are used up; write the output.
DecompressWrite ==
  /\ pc = "d_walk"
  /\ bitpos = Len(encoded_bits)
  /\ out' = File(decoded_data)
  /\ d_outcome' = "ok"
  /\ pc' = Return(op)
  /\ UNCHANGED <<op, data, frequency, nodes, merges, c_root, codes,
                 c_padding, huf, c_outcome, infile, d_padding, d_root,
                 encoded_bits, bitpos, current_node, decoded_data, txt,
                 t_outcome>>

\* ------------------------------------------------- huf_to_txt, zip_to_txt
\* huf_to_txt, lines 154-164, after decompress returned: read temp.bin
\* (FileNotFoundError, which nothing catches, when decompress wrote none),
\* decode it, write the text file, and remove temp.bin in the finally
\* clause; then zip_to_txt, lines 170-171, removes temp.huf.
TxtFinish ==
  /\ pc = "t_finish"
  /\ IF ~out.exists
     THEN /\ t_outcome' = "FileNotFoundError"
          /\ UNCHANGED <<out, txt, infile>>
     ELSE /\ LET d == Utf8Decode(out.bytes)
             IN IF d.ok
                THEN /\ txt' = File(Utf8Encode(d.text))
                     /\ t_outcome' = "ok"
                ELSE /\ t_outcome' = "NotUtf8"
                     /\ UNCHANGED txt
          /\ out' = NoFile
          /\ infile' = IF op = "zip_to_txt" THEN NoFile ELSE infile
  /\ pc' = "done"
  /\ UNCHANGED <<op, data, frequency, nodes, merges, c_root, codes,
                 c_padding, huf, c_outcome, d_padding, d_root, encoded_bits,
                 bitpos, current_node, decoded_data, d_outcome>>

\* extract_txt_from_zip, lines 183-195 (menu choice 8) with the .txt file
\* as its destination.
ExtractTxtFromZip ==
  /\ pc = "done"
  /\ \E z \in {NoZip, ZipOld} : txt' = extract_txt_from_zip(z, txt)
  /\ UNCHANGED <<pc, op, data, frequency, nodes, merges, c_root, codes,
                 c_padding, huf, c_outcome, infile, d_padding, d_root,
                 encoded_bits, bitpos, current_node, decoded_data, out,
                 d_outcome, t_outcome>>

\* main, lines 211-247: the menu choices that touch the modelled files
Next ==
  \/ CompressRead
  \/ Merge
  \/ CompressEncode
  \/ ZipToHuf
  \/ DecompressRead
  \/ HufToTxtStart
  \/ ZipToTxtStart
  \/ DecompressRoot
  \/ WalkBit
  \/ DecompressWrite
  \/ TxtFinish
  \/ ExtractTxtFromZip

Spec == Init /\ [][Next]_vars

TypeOK ==
  /\ pc \in {"start", "c_build", "c_done", "d_build", "d_walk", "t_finish",
             "done"}
  /\ op \in {"none", "decompress", "huf_to_txt", "zip_to_txt"}
  /\ c_outcome \in {"none", "EmptyInput", "ok"}
  /\ d_outcome \in {"none", "NotFound", "InvalidHuffmanData",
                    "AttributeError", "ok"}
  /\ t_outcome \in {"none", "ok", "NotUtf8", "FileNotFoundError"}

\* ---------------------------------------------------- operators on trees
RECURSIVE Subtrees(_)
Subtrees(t) ==
  IF IsNone(t) THEN {} ELSE {t} \cup Subtrees(t.left) \cup Subtrees(t.right)

LeafChars(t) == {n.char : n \in {m \in Subtrees(t) : IsLeaf(m)}}

RECURSIVE LeafCount(_)
LeafCount(t) ==
  IF IsNone(t) THEN 0
  ELSE IF IsLeaf(t) THEN 1
  ELSE LeafCount(t.left) + LeafCount(t.right)

RECURSIVE LeafWeightSum(_)
LeafWeightSum(t) ==
  IF IsNone(t) THEN 0
  ELSE IF IsLeaf(t) THEN t.freq
  ELSE LeafWeightSum(t.left) + LeafWeightSum(t.right)

\* every leaf has no child, every internal node has both
StrictBinary(t) ==
  \A n \in Subtrees(t) :
    IF IsLeaf(n) THEN IsNone(n.left) /\ IsNone(n.right)
    ELSE ~IsNone(n.left) /\ ~IsNone(n.right)

IsPrefix(a, b) == Len(a) <= Len(b) /\ \A i \in 1..Len(a) : b[i] = a[i]

RECURSIVE SumCodeLen(_, _)
SumCodeLen(d, cs) ==
  IF d = <<>> THEN 0 ELSE Len(cs[Head(d)]) + SumCodeLen(Tail(d), cs)

RECURSIVE SumCounts(_, _)
SumCounts(f, S) ==
  IF S = {} THEN 0
  ELSE LET b == CHOOSE x \in S : TRUE IN f[b] + SumCounts(f, S \ {b})

NonZero(f) == {b \in DOMAIN f : f[b] > 0}

\* the container compress wrote for data
CompressOutput ==
  File(Container(build_frequency_table(data), c_padding,
                 PackBits(Encode(data, codes) \o Zeros(c_padding))))

\* decompress is running, or has run, on exactly the container compress
\* wrote: its input has the content of the .huf file, and that is still
\* what compress wrote
RoundTripRun ==
  /\ c_outcome = "ok"
  /\ infile = huf
  /\ huf = CompressOutput

\* decompress has ended (returned to its caller, or raised) and its caller
\* has not yet touched the files
DecompressEnded ==
  \/ pc = "t_finish"
  \/ pc = "done" /\ (op = "decompress" \/ d_outcome = "AttributeError")

\* ------------------------------------------------------------------ claims

\* C1: for every non-empty input D (a run of one repeated byte included),
\* decompress on the container compress wrote for D ends without error and
\* writes output equal to D.
C1_RoundTrip ==
  (DecompressEnded /\ RoundTripRun) =>
    (d_outcome = "ok" /\ out = File(data))

\* C3: in the code table of a successful compress no code of one byte value
\* is a prefix of the code of a different byte value.
C3_PrefixFree ==
  c_outcome = "ok" =>
    \A a \in DOMAIN codes : \A b \in DOMAIN codes :
      a # b => ~IsPrefix(codes[a], codes[b])

C3_Witness ==
  /\ c_outcome = "ok"
  /\ Cardinality(DOMAIN codes) >= 3
  /\ \E a \in DOMAIN codes : \E b \in DOMAIN codes :
       Len(codes[a]) < Len(codes[b])

\* C4: the pad length compress stores in the container is in 0..7 and equals
\* (8 - total_bit_length % 8) % 8, total_bit_length being the sum of the
\* code lengths of the input bytes; the payload holds total_bit_length plus
\* pad length bits, a multiple of 8, and the padding bits are all 0.
\* (Stated of the step in which compress writes the container.)
C4_Padding ==
  [][(pc = "c_build" /\ pc' = "c_done") =>
       LET total == SumCodeLen(data, codes')
           stored == huf'.bytes[NumSlots * CountWidth + 1]
           bits == UnpackBits(ReadPayload(huf'.bytes))
       IN /\ stored \in 0..7
          /\ stored = (8 - (total % 8)) % 8
          /\ Len(bits) = total + stored
          /\ Len(bits) % 8 = 0
          /\ \A i \in (total + 1)..Len(bits) : bits[i] = 0]_vars

C4_Witness ==
  /\ pc = "c_done"
  /\ c_outcome = "ok"
  /\ SumCodeLen(data, codes) = 8
  /\ huf = CompressOutput
  /\ c_padding = 0

\* C5: compress on a zero-length source ends in the EmptyInput outcome and
\* does not change the destination file: not created when it was missing,
\* not rewritten when it existed.
C5_EmptyInput ==
  [][(pc = "start" /\ data = <<>>) =>
       /\ c_outcome' = "EmptyInput"
       /\ pc' = "c_done"
       /\ huf' = huf]_vars

C5_Witness ==
  /\ data = <<>>
  /\ c_outcome = "EmptyInput"
  /\ huf = OldFile
  /\ pc = "c_done"

\* C6: decompress on a file shorter than 1025 bytes, or on a file whose 256
\* stored counts are all zero, ends in the invalid-container outcome and
\* writes no output file.
C6_Malformed ==
  (/\ DecompressEnded
   /\ infile.exists
   /\ \/ Len(infile.bytes) < NumSlots * CountWidth + 1
      \/ NonZero(frequency) = {})
  => (d_outcome = "InvalidHuffmanData" /\ out = NoFile)

\* C7: any two distinct nodes that are in the heap of build_huffman_tree at
\* the same time are ordered by __lt__: exactly one of a < b and b < a holds.
C7_TotalOrder ==
  pc \in {"c_build", "d_build"} =>
    \A i \in 1..Len(nodes) : \A j \in 1..Len(nodes) :
      nodes[i] # nodes[j] =>
        ~(lt(nodes[i], nodes[j]) <=> lt(nodes[j], nodes[i]))

\* C8: for a table with k >= 1 non-zero counts build_huffman_tree returns
\* after exactly k-1 merges a strict binary tree whose leaves are exactly
\* the byte values with non-zero count, each with its count as weight, in
\* which every Internal node weighs the sum of the leaves beneath it (the
\* root the sum of all counts) and has weight(left) <= weight(right).
TreeBuilt ==
  \/ pc = "c_done" /\ c_outcome = "ok"
  \/ pc \in {"d_walk", "t_finish", "done"} /\ ~IsNone(d_root)

BuiltRoot == IF pc = "c_done" THEN c_root ELSE d_root

C8_TreeStructure ==
  TreeBuilt =>
    LET root == BuiltRoot
        k == Cardinality(NonZero(frequency))
    IN /\ k >= 1
       /\ merges = k - 1
       /\ StrictBinary(root)
       /\ LeafChars(root) = NonZero(frequency)
       /\ LeafCount(root) = k
       /\ root.freq = SumCounts(frequency, NonZero(frequency))
       /\ \A n \in Subtrees(root) :
            IF IsLeaf(n) THEN n.freq = frequency[n.char]
            ELSE /\ n.freq = LeafWeightSum(n)
                 /\ n.left.freq <= n.right.freq

C8_Witness ==
  /\ TreeBuilt
  /\ merges = 3
  /\ \E n \in Subtrees(BuiltRoot) :
       IsInternal(n) /\ n.left.freq < n.right.freq

\* C9: when the usable bit sequence ends mid-path (the walk stands at an
\* Internal node below the root and no bits remain) decompress fails with
\* TruncatedStream instead of writing the bytes decoded so far.
EndedMidPath ==
  /\ DecompressEnded
  /\ ~IsNone(d_root)
  /\ bitpos = Len(encoded_bits)
  /\ IsInternal(current_node)
  /\ current_node # d_root

C9_TruncatedStream ==
  EndedMidPath => (d_outcome = "TruncatedStream" /\ out = NoFile)

\* C9 as amended: when the usable bit sequence ends mid-path decompress
\* does not fail; it drops the unfinished path, writes the bytes decoded so
\* far to the output file and ends successfully.
C9_TruncatedAccepted ==
  EndedMidPath => (d_outcome = "ok" /\ out = File(decoded_data))

C9_Witness ==
  /\ EndedMidPath
  /\ Len(decoded_data) >= 1
  /\ out = File(decoded_data)

\* C10: for an input with at least two distinct byte values, decompress on
\* the container compress wrote rebuilds the compress-side tree, never
\* steps onto a missing child, emits every byte at a Leaf and resets to the
\* root, and after the last non-padding bit stands at the root having
\* emitted exactly len(D) bytes.
C10_WalkAligned ==
  (RoundTripRun /\ Cardinality(DOMAIN codes) >= 2) =>
    /\ d_outcome \in {"none", "ok"}
    /\ pc \in {"d_walk", "t_finish", "done"} =>
         /\ d_root = c_root
         /\ Len(encoded_bits) = SumCodeLen(data, codes)
         /\ ~IsNone(current_node)
         /\ (current_node = d_root \/ IsInternal(current_node))
         /\ Len(decoded_data) <= Len(data)
         /\ \A i \in 1..Len(decoded_data) : decoded_data[i] = data[i]
    /\ pc \in {"t_finish", "done"} =>
         /\ bitpos = Len(encoded_bits)
         /\ current_node = d_root
         /\ Len(decoded_data) = Len(data)

C10_Witness ==
  /\ RoundTripRun
  /\ DecompressEnded
  /\ Cardinality(DOMAIN codes) >= 3
  /\ Len(decoded_data) = MaxLen
  /\ current_node = d_root

====
